---- MODULE Spec2Model ----
(***************************************************************************)
(* Model of workflows.py: the run-info helper _bids2nipypeinfo, the edge   *)
(* transforms _len, _dof and _neg, and the dependency graphs declared by   *)
(* first_level_wf and second_level_wf as the workflow engine executes      *)
(* them (a node runs once all the nodes feeding it have finished).         *)
(***************************************************************************)
EXTENDS Integers, Sequences, FiniteSets, TLC

VARIABLES
    call,        \* the arguments of the _bids2nipypeinfo call
    result,      \* what the call returned (or the exception it raised)
    pc,          \* "ready" before the call, "done" after it
    l1_status,   \* first level: subject -> node -> "pending" | "done"
    l1_out,      \* first level: subject -> node -> the output fields it produced
    l1_sink,     \* first level: the files staged under the derivatives directory
    in_copes,    \* second level: inputnode.in_copes
    l2_status,   \* second level: node -> "pending" | "done"
    l2_in,       \* second level: node -> the inputs it ran with
    l2_out,      \* second level: node -> the outputs it produced
    l2_sink      \* second level: the files staged under the derivatives directory

info_vars == <<call, result, pc>>
l1_vars == <<l1_status, l1_out, l1_sink>>
l2_vars == <<in_copes, l2_status, l2_in, l2_out, l2_sink>>
vars == <<call, result, pc, l1_status, l1_out, l1_sink,
          in_copes, l2_status, l2_in, l2_out, l2_sink>>

(***************************************************************************)
(* Bounds of the model.                                                    *)
(***************************************************************************)
\* rows of an events table
MaxRows == 2
\* entries of a requested regressors_names list
MaxNames == 2
\* decimal places of the onsets and durations written in an events table
InputDigits == 4

(***************************************************************************)
(* Generic helpers.                                                        *)
(***************************************************************************)
Range(s) == {s[i] : i \in DOMAIN s}

SeqsUpTo(S, n) == UNION {[1..k -> S] : k \in 0..n}

\* every list holding each element of S exactly once: the orders in which
\* list(set(...)) may enumerate S
Orderings(S) == {s \in [1..Cardinality(S) -> S] : Range(s) = S}

\* the sub-list of s at the (ascending) indices in I
RECURSIVE SelectIdx(_, _)
SelectIdx(s, I) ==
    IF I = {} THEN <<>>
    ELSE LET m == CHOOSE i \in I : \A j \in I : j <= i
         IN Append(SelectIdx(s, I \ {m}), s[m])

\* the characters (code points) of the names the model uses
Chars(s) ==
    CASE s = "trans_x" -> <<116, 114, 97, 110, 115, 95, 120>>
      [] s = "trans_y" -> <<116, 114, 97, 110, 115, 95, 121>>
      [] s = "trans_z" -> <<116, 114, 97, 110, 115, 95, 122>>
      [] s = "rot_x" -> <<114, 111, 116, 95, 120>>
      [] s = "rot_y" -> <<114, 111, 116, 95, 121>>
      [] s = "rot_z" -> <<114, 111, 116, 95, 122>>
      [] s = "a_comp_cor_00" -> <<97, 95, 99, 111, 109, 112, 95, 99, 111, 114, 95, 48, 48>>
      [] s = "cosine00" -> <<99, 111, 115, 105, 110, 101, 48, 48>>
      [] s = "cosine01" -> <<99, 111, 115, 105, 110, 101, 48, 49>>
      [] s = "dvars" -> <<100, 118, 97, 114, 115>>
      [] s = "A" -> <<65>>
      [] s = "AB" -> <<65, 66>>
      [] s = "B" -> <<66>>

\* a < b in the order of Python's str comparison (code point by code point,
\* a proper prefix first)
StrLess(a, b) ==
    LET x == Chars(a)
        y == Chars(b)
    IN \E k \in 0..Len(x) :
          /\ k <= Len(y)
          /\ \A i \in 1..k : x[i] = y[i]
          /\ \/ k = Len(x) /\ k < Len(y)
             \/ k < Len(x) /\ k < Len(y) /\ x[k + 1] < y[k + 1]

\* sorted(S, reverse=True): the names in descending order
RECURSIVE SortedDescending(_)
SortedDescending(S) ==
    IF S = {} THEN <<>>
    ELSE LET m == CHOOSE x \in S : \A y \in S \ {x} : StrLess(y, x)
         IN <<m>> \o SortedDescending(S \ {m})

\* sorted(S) for a set S of names
RECURSIVE Sorted(_)
Sorted(S) ==
    IF S = {} THEN <<>>
    ELSE LET m == CHOOSE x \in S : \A y \in S \ {x} : StrLess(x, y)
         IN <<m>> \o Sorted(S \ {m})

\* re.match(pattern, text) for a pattern without metacharacters: the text
\* starts with the pattern
StrMatch(text, pattern) ==
    LET t == Chars(text)
        p == Chars(pattern)
    IN Len(p) <= Len(t) /\ \A i \in 1..Len(p) : t[i] = p[i]

RECURSIVE Pow10(_)
Pow10(n) == IF n <= 0 THEN 1 ELSE 10 * Pow10(n - 1)

\* np.round(v, decimals) on a value kept in units of 10^-InputDigits:
\* the nearest multiple of 10^-decimals, a tie going to the even digit
NpRound(v, decimals) ==
    LET u == Pow10(InputDigits - decimals)
        q == v \div u
        r == v % u
    IN IF 2 * r < u THEN q * u
       ELSE IF 2 * r > u THEN (q + 1) * u
       ELSE IF q % 2 = 0 THEN q * u ELSE (q + 1) * u

(***************************************************************************)
(* _bids2nipypeinfo.                                                       *)
(***************************************************************************)
\* ['_'.join(v) for v in product(('trans', 'rot'), 'xyz')]
DefaultMotionColumns ==
    <<"trans_x", "trans_y", "trans_z", "rot_x", "rot_y", "rot_z">>

\* a cell of the confounds table: a number, or n/a (read as NaN)
NaN == [nan |-> TRUE]
Num(v) == [nan |-> FALSE, v |-> v]

\* the values of the columns of the confounds file, one cell per volume
ConfoundsColumn(c) ==
    CASE c = "a_comp_cor_00" -> <<Num(11), Num(12)>>
      [] c = "cosine00" -> <<Num(21), Num(22)>>
      [] c = "cosine01" -> <<Num(31), Num(32)>>
      [] c = "dvars" -> <<NaN, Num(42)>>
      [] c = "trans_x" -> <<Num(1), Num(2)>>
      [] c = "trans_y" -> <<Num(3), Num(4)>>
      [] c = "trans_z" -> <<Num(5), Num(6)>>
      [] c = "rot_x" -> <<Num(7), Num(8)>>
      [] c = "rot_y" -> <<Num(9), Num(10)>>
      [] c = "rot_z" -> <<Num(13), Num(14)>>

\* DataFrame.fillna(0.0) on one column
FillNa(col) == [i \in DOMAIN col |-> IF col[i].nan THEN 0 ELSE col[i].v]

\* regress_data[names].fillna(0.0).values.T.tolist(): one row per name
RegressorRows(names) == [i \in DOMAIN names |-> FillNa(ConfoundsColumn(names[i]))]

\* the regressors_names in effect after line 289
EffectiveNames(c, motion_columns) ==
    IF c.regressors_names.given
    THEN c.regressors_names.names
    ELSE Sorted(c.confounds \ Range(motion_columns))

\* events[events.trial_type.str.match(condition)]: the indices of the rows kept
MatchingRows(events, condition) ==
    {i \in DOMAIN events.rows : StrMatch(events.rows[i].trial_type, condition)}

\* np.round(event.<column>.values, 3).tolist(): the precision is the literal
\* 3, the decimals parameter is not read
RoundedColumn(event, column, decimals) ==
    [i \in DOMAIN event |-> NpRound(event[i][column], 3)]

\* [1.0] * len(event): the amplitude parameter ignored
UnitAmplitudes(amplitude, event) == [i \in DOMAIN event |-> Pow10(InputDigits)]

\* [amplitude] * len(event)
DefaultAmplitudes(amplitude, event) == [i \in DOMAIN event |-> amplitude]

\* the amplitudes entry of one condition
Amplitudes(c, event) ==
    IF "amplitudes" \in c.events.columns
    THEN RoundedColumn(event, "amplitudes", c.decimals)
    ELSE DefaultAmplitudes(c.amplitude, event)

\* the set the fallback of the except branch reduces the names to
FallbackNames(names, columns) == Range(names) \cap columns

\* the regressor fields of the run-info; fallback is the order in which
\* list(set(...)) enumerates the intersection in the except branch
RegressorFields(c, names, fallback) ==
    IF names = <<>> THEN <<>>
    ELSE [regressor_names |-> names,
          regressors |-> IF Range(names) \subseteq c.confounds
                         THEN RegressorRows(names)
                         ELSE RegressorRows(fallback)]

\* the Bunch built for one enumeration order of the conditions
RunInfo(c, names, conditions, fallback) ==
    LET event(k) == SelectIdx(c.events.rows, MatchingRows(c.events, conditions[k]))
    IN [scans |-> c.in_file,
        conditions |-> conditions,
        onsets |-> [k \in DOMAIN conditions |->
                       RoundedColumn(event(k), "onset", c.decimals)],
        durations |-> [k \in DOMAIN conditions |->
                          RoundedColumn(event(k), "duration", c.decimals)],
        amplitudes |-> [k \in DOMAIN conditions |-> Amplitudes(c, event(k))]]
       @@ RegressorFields(c, names, fallback)

\* every result the call may produce
Bids2NipypeInfoResults(c) ==
    LET motion_columns == IF c.motion_columns = <<>>
                          THEN DefaultMotionColumns ELSE c.motion_columns
        names == EffectiveNames(c, motion_columns)
        types == {c.events.rows[i].trial_type : i \in DOMAIN c.events.rows}
    IN IF ~(Range(motion_columns) \subseteq c.confounds)
       THEN {[status |-> "KeyError"]}
       ELSE {[status |-> "ok",
              info |-> RunInfo(c, names, conditions, fallback),
              realign_file |-> motion_columns] :
                 conditions \in Orderings(types),
                 fallback \in Orderings(FallbackNames(names, c.confounds))}

(***************************************************************************)
(* The calls the model makes.                                              *)
(***************************************************************************)
TrialTypes == {"A", "AB", "B"}
Onsets == {12345, 12355}
Durations == {5000, 20006}
EventAmplitudes == {15004}
\* the values of the decimals parameter; 3 is its default
DecimalsValues == {2, 3}
\* the values of the amplitude parameter; 1.0 is its default
AmplitudeValues == {Pow10(InputDigits), 25 * Pow10(InputDigits - 1)}
OtherColumns == {"a_comp_cor_00", "cosine00", "cosine01", "dvars"}
MotionColumnsValues == {<<>>, <<"trans_x", "trans_y", "trans_z">>}

RowsWithout == [trial_type : TrialTypes, onset : Onsets, duration : Durations]
RowsWith == [trial_type : TrialTypes, onset : Onsets, duration : Durations,
             amplitudes : EventAmplitudes]

\* the events tables: with and without an amplitudes column
EventsTables ==
    {[columns |-> {"trial_type", "onset", "duration"}, rows |-> r] :
        r \in SeqsUpTo(RowsWithout, MaxRows)}
    \cup
    {[columns |-> {"trial_type", "onset", "duration", "amplitudes"}, rows |-> r] :
        r \in SeqsUpTo(RowsWith, MaxRows)}

\* the column sets of the confounds tables: the six motion columns (or all
\* but rot_z) and any of the other columns
ConfoundsTables ==
    {m \cup o : m \in {Range(DefaultMotionColumns),
                       Range(DefaultMotionColumns) \ {"rot_z"}},
                o \in SUBSET OtherColumns}

\* regressors_names: None, or a list of names
RegressorsNamesValues ==
    {[given |-> FALSE]} \cup
    {[given |-> TRUE, names |-> n] : n \in SeqsUpTo(OtherColumns, MaxNames)}

BaseEvents ==
    [columns |-> {"trial_type", "onset", "duration"},
     rows |-> <<[trial_type |-> "A", onset |-> 12345, duration |-> 5000],
                [trial_type |-> "B", onset |-> 12355, duration |-> 20006]>>]

BaseConfounds == Range(DefaultMotionColumns) \cup {"cosine00", "dvars"}

\* calls that vary the events side, and calls that vary the confounds side
EventsCalls ==
    {[in_file |-> "bold", events |-> e, confounds |-> BaseConfounds,
      regressors_names |-> [given |-> TRUE, names |-> <<"dvars">>],
      motion_columns |-> <<>>, decimals |-> d, amplitude |-> a] :
        e \in EventsTables, d \in DecimalsValues, a \in AmplitudeValues}

ConfoundsCalls ==
    {[in_file |-> "bold", events |-> BaseEvents, confounds |-> t,
      regressors_names |-> n, motion_columns |-> m,
      decimals |-> 3, amplitude |-> Pow10(InputDigits)] :
        t \in ConfoundsTables, n \in RegressorsNamesValues,
        m \in MotionColumnsValues}

NoResult == [status |-> "none"]

InfoInit ==
    /\ call \in EventsCalls \cup ConfoundsCalls
    /\ result = NoResult
    /\ pc = "ready"

\* the runinfo node calls _bids2nipypeinfo
Bids2NipypeInfo ==
    /\ pc = "ready"
    /\ \E r \in Bids2NipypeInfoResults(call) : result' = r
    /\ pc' = "done"
    /\ UNCHANGED <<call, l1_vars, l2_vars>>

(***************************************************************************)
(* first_level_wf: the graph the engine runs once per subject.             *)
(***************************************************************************)
\* subjects of in_files (datasource.iterables)
NumSubjects == 2
Subjects == 1..NumSubjects

DATA_ITEMS == {"bold", "mask", "events", "regressors", "tr"}

\* the nodes workflow.connect adds to the graph
L1Nodes ==
    {"datasource", "runinfo", "susan", "l1_spec", "l1_model", "feat_spec",
     "feat_fit", "feat_select", "ds_cope", "ds_varcope", "ds_zstat", "ds_tstat"}

L1Edge(src, out, dst, inp) == [src |-> src, out |-> out, dst |-> dst, inp |-> inp]

\* workflow.connect([...]) of first_level_wf
L1Connections ==
    {L1Edge("datasource", "bold", "susan", "inputnode.in_files"),
     L1Edge("datasource", "mask", "susan", "inputnode.mask_file"),
     L1Edge("datasource", "events", "runinfo", "events_file"),
     L1Edge("datasource", "regressors", "runinfo", "regressors_file"),
     L1Edge("susan", "outputnode.smoothed_files", "l1_spec", "functional_runs"),
     L1Edge("datasource", "tr", "l1_spec", "time_repetition"),
     L1Edge("datasource", "tr", "l1_model", "interscan_interval"),
     L1Edge("datasource", "bold", "ds_cope", "source_file"),
     L1Edge("datasource", "bold", "ds_varcope", "source_file"),
     L1Edge("datasource", "bold", "ds_zstat", "source_file"),
     L1Edge("datasource", "bold", "ds_tstat", "source_file"),
     L1Edge("susan", "outputnode.smoothed_files", "runinfo", "in_file"),
     L1Edge("runinfo", "info", "l1_spec", "subject_info"),
     L1Edge("runinfo", "realign_file", "l1_spec", "realignment_parameters"),
     L1Edge("l1_spec", "session_info", "l1_model", "session_info"),
     L1Edge("l1_model", "fsf_files", "feat_spec", "fsf_file"),
     L1Edge("l1_model", "ev_files", "feat_spec", "ev_files"),
     L1Edge("l1_model", "fsf_files", "feat_fit", "fsf_file"),
     L1Edge("feat_fit", "feat_dir", "feat_select", "base_directory"),
     L1Edge("feat_select", "cope", "ds_cope", "in_file"),
     L1Edge("feat_select", "varcope", "ds_varcope", "in_file"),
     L1Edge("feat_select", "zstat", "ds_zstat", "in_file"),
     L1Edge("feat_select", "tstat", "ds_tstat", "in_file")}

\* the templates of feat_select: the result image types it selects
FeatSelectTemplates == {"cope", "pe", "tstat", "varcope", "zstat"}

\* the output fields a first-level node produces when it has run
L1Outputs(n) ==
    CASE n = "datasource" -> DATA_ITEMS
      [] n = "runinfo" -> {"info", "realign_file"}
      [] n = "susan" -> {"outputnode.smoothed_files"}
      [] n = "l1_spec" -> {"session_info"}
      [] n = "l1_model" -> {"fsf_files", "ev_files"}
      [] n = "feat_fit" -> {"feat_dir"}
      [] n = "feat_select" -> FeatSelectTemplates
      [] OTHER -> {}

\* the staging nodes with ds_tstat given the suffix of ds_zstat
L1SinksSameSuffix ==
    [ds_cope |-> [suffix |-> "cope", desc |-> "intask"],
     ds_varcope |-> [suffix |-> "varcope", desc |-> "intask"],
     ds_zstat |-> [suffix |-> "zstat", desc |-> "intask"],
     ds_tstat |-> [suffix |-> "zstat", desc |-> "intask"]]

\* the DerivativesDataSink nodes of first_level_wf and their naming entities
L1Sinks ==
    [ds_cope |-> [suffix |-> "cope", desc |-> "intask"],
     ds_varcope |-> [suffix |-> "varcope", desc |-> "intask"],
     ds_zstat |-> [suffix |-> "zstat", desc |-> "intask"],
     ds_tstat |-> [suffix |-> "tstat", desc |-> "intask"]]

L1Preds(n) == {e.src : e \in {x \in L1Connections : x.dst = n}}

\* all the nodes feeding n have finished for subject s
L1Ready(s, n) ==
    /\ l1_status[s][n] = "pending"
    /\ \A m \in L1Preds(n) : l1_status[s][m] = "done"

\* what a staging node writes: one file per connection into its in_file
L1Staged(s, n) ==
    IF n \in DOMAIN L1Sinks
    THEN {[sub |-> s, out_path_base |-> "FSLAnalysis",
           suffix |-> L1Sinks[n].suffix, desc |-> L1Sinks[n].desc,
           in_file |-> <<e.src, e.out>>] :
             e \in {x \in L1Connections :
                      /\ x.dst = n /\ x.inp = "in_file"
                      /\ x.out \in l1_out[s][x.src]}}
    ELSE {}

L1Init ==
    /\ l1_status = [s \in Subjects |-> [n \in L1Nodes |-> "pending"]]
    /\ l1_out = [s \in Subjects |-> [n \in L1Nodes |-> {}]]
    /\ l1_sink = {}

\* the engine runs node n for subject s (its tool succeeds)
L1RunNode(s, n) ==
    /\ L1Ready(s, n)
    /\ l1_status' = [l1_status EXCEPT ![s][n] = "done"]
    /\ l1_out' = [l1_out EXCEPT ![s][n] = L1Outputs(n)]
    /\ l1_sink' = l1_sink \cup L1Staged(s, n)
    /\ UNCHANGED <<info_vars, l2_vars>>

L1Run == \E s \in Subjects, n \in L1Nodes : L1RunNode(s, n)

(***************************************************************************)
(* second_level_wf.                                                        *)
(***************************************************************************)
\* per-subject contrast maps given to the group analysis
MaxCopes == 4
\* voxels of a statistical image
NumVoxels == 1
Voxels == 1..NumVoxels
\* the z values of a voxel, and the thresholds fwe_ptoz may produce
ZValues == {-2, -1, 0, 1, 2}
ZThresholds == {0, 1}

\* a file whose content the pipeline only routes, and an image it computes on
Opaque == [known |-> FALSE]
Img(v) == [known |-> TRUE, vox |-> v]
Images == {Img(v) : v \in [Voxels -> ZValues]}

_len(inlist) == Len(inlist)

\* the degrees of freedom without the minus one
LenAsDof(inlist) == Len(inlist)

_dof(inlist) == Len(inlist) - 1

\* the lower cut not negated
NotNegated(val) == val

_neg(val) == -val

L2Nodes ==
    {"inputnode", "l2_model", "flameo_ols", "merge_copes", "merge_varcopes",
     "smoothness", "fwe_ptoz", "fwe_nonsig0", "fwe_nonsig1", "fwe_thresh",
     "cluster_pos", "cluster_neg", "zstat_inv", "cluster_inv", "cluster_all",
     "ds_zraw", "ds_zfwe", "ds_zclust", "ds_clustidx_pos", "ds_clustlmax_pos",
     "ds_clustidx_neg", "ds_clustlmax_neg"}

L2Edge(src, out, fn, dst, inp) ==
    [src |-> src, out |-> out, fn |-> fn, dst |-> dst, inp |-> inp]

\* workflow.connect([...]) of second_level_wf
L2Connections ==
    {L2Edge("inputnode", "in_copes", "_len", "l2_model", "num_copes"),
     L2Edge("inputnode", "group_mask", "id", "flameo_ols", "mask_file"),
     L2Edge("inputnode", "group_mask", "id", "smoothness", "mask_file"),
     L2Edge("inputnode", "in_copes", "_dof", "smoothness", "dof"),
     L2Edge("inputnode", "in_copes", "id", "merge_copes", "in_files"),
     L2Edge("inputnode", "in_varcopes", "id", "merge_varcopes", "in_files"),
     L2Edge("l2_model", "design_mat", "id", "flameo_ols", "design_file"),
     L2Edge("l2_model", "design_con", "id", "flameo_ols", "t_con_file"),
     L2Edge("l2_model", "design_grp", "id", "flameo_ols", "cov_split_file"),
     L2Edge("merge_copes", "merged_file", "id", "flameo_ols", "cope_file"),
     L2Edge("merge_varcopes", "merged_file", "id", "flameo_ols", "var_cope_file"),
     L2Edge("flameo_ols", "res4d", "id", "smoothness", "residual_fit_file"),
     L2Edge("flameo_ols", "zstats", "id", "fwe_nonsig0", "in_file"),
     L2Edge("fwe_nonsig0", "out_file", "id", "fwe_nonsig1", "in_file"),
     L2Edge("smoothness", "resels", "id", "fwe_ptoz", "resels"),
     L2Edge("fwe_ptoz", "zstat", "id", "fwe_nonsig0", "thresh"),
     L2Edge("fwe_ptoz", "zstat", "_neg", "fwe_nonsig1", "thresh"),
     L2Edge("flameo_ols", "zstats", "id", "fwe_thresh", "in_file"),
     L2Edge("fwe_nonsig1", "out_file", "id", "fwe_thresh", "operand_file"),
     L2Edge("flameo_ols", "zstats", "id", "cluster_pos", "in_file"),
     L2Edge("merge_copes", "merged_file", "id", "cluster_pos", "cope_file"),
     L2Edge("smoothness", "volume", "id", "cluster_pos", "volume"),
     L2Edge("smoothness", "dlh", "id", "cluster_pos", "dlh"),
     L2Edge("flameo_ols", "zstats", "id", "zstat_inv", "in_file"),
     L2Edge("zstat_inv", "out_file", "id", "cluster_neg", "in_file"),
     L2Edge("cluster_neg", "threshold_file", "id", "cluster_inv", "in_file"),
     L2Edge("merge_copes", "merged_file", "id", "cluster_neg", "cope_file"),
     L2Edge("smoothness", "volume", "id", "cluster_neg", "volume"),
     L2Edge("smoothness", "dlh", "id", "cluster_neg", "dlh"),
     L2Edge("cluster_pos", "threshold_file", "id", "cluster_all", "in_file"),
     L2Edge("cluster_inv", "out_file", "id", "cluster_all", "operand_file"),
     L2Edge("flameo_ols", "zstats", "id", "ds_zraw", "in_file"),
     L2Edge("fwe_thresh", "out_file", "id", "ds_zfwe", "in_file"),
     L2Edge("cluster_all", "out_file", "id", "ds_zclust", "in_file"),
     L2Edge("cluster_pos", "index_file", "id", "ds_clustidx_pos", "in_file"),
     L2Edge("cluster_pos", "localmax_txt_file", "id", "ds_clustlmax_pos", "in_file"),
     L2Edge("cluster_neg", "index_file", "id", "ds_clustidx_neg", "in_file"),
     L2Edge("cluster_neg", "localmax_txt_file", "id", "ds_clustlmax_neg", "in_file")}

\* the staging nodes with ds_clustidx_neg given the suffix of ds_clustidx_pos
L2SinksSameSuffix ==
    [ds_zraw |-> [suffix |-> "zstat", desc |-> "none"],
     ds_zfwe |-> [suffix |-> "zstat", desc |-> "fwe"],
     ds_zclust |-> [suffix |-> "zstat", desc |-> "clust"],
     ds_clustidx_pos |-> [suffix |-> "pclusterindex", desc |-> "none"],
     ds_clustlmax_pos |-> [suffix |-> "plocalmax", desc |-> "intask"],
     ds_clustidx_neg |-> [suffix |-> "pclusterindex", desc |-> "none"],
     ds_clustlmax_neg |-> [suffix |-> "nlocalmax", desc |-> "intask"]]

\* the GroupDerivativesDataSink nodes and their naming entities
L2Sinks ==
    [ds_zraw |-> [suffix |-> "zstat", desc |-> "none"],
     ds_zfwe |-> [suffix |-> "zstat", desc |-> "fwe"],
     ds_zclust |-> [suffix |-> "zstat", desc |-> "clust"],
     ds_clustidx_pos |-> [suffix |-> "pclusterindex", desc |-> "none"],
     ds_clustlmax_pos |-> [suffix |-> "plocalmax", desc |-> "intask"],
     ds_clustidx_neg |-> [suffix |-> "nclusterindex", desc |-> "none"],
     ds_clustlmax_neg |-> [suffix |-> "nlocalmax", desc |-> "intask"]]

\* the function a connection applies to the value it carries
L2Apply(fn, v) ==
    CASE fn = "_len" -> _len(v)
      [] fn = "_dof" -> _dof(v)
      [] fn = "_neg" -> _neg(v)
      [] OTHER -> v

L2Into(n) == {e \in L2Connections : e.dst = n}
L2Preds(n) == {e.src : e \in L2Into(n)}

\* the inputs node n receives over its connections
L2Inputs(n) ==
    [f \in {e.inp : e \in L2Into(n)} |->
        LET e == CHOOSE x \in L2Into(n) : x.inp = f
        IN L2Apply(e.fn, l2_out[e.src][e.out])]

\* fsl.Threshold: fslmaths in -uthr t zeroes what lies above t
\* (direction='above'), fslmaths in -thr t what lies below t ('below')
Threshold(direction, in_file, thresh) ==
    Img([x \in Voxels |->
            IF direction = "above"
            THEN (IF in_file.vox[x] > thresh THEN 0 ELSE in_file.vox[x])
            ELSE (IF in_file.vox[x] < thresh THEN 0 ELSE in_file.vox[x])])

\* fsl.BinaryMaths with an operand_file
BinaryMaths(operation, in_file, operand_file) ==
    IF in_file.known /\ operand_file.known
    THEN Img([x \in Voxels |->
                 CASE operation = "sub" -> in_file.vox[x] - operand_file.vox[x]
                   [] operation = "add" -> in_file.vox[x] + operand_file.vox[x]])
    ELSE Opaque

\* fsl.BinaryMaths(operation='mul') with an operand_value
BinaryMathsMul(in_file, operand_value) ==
    IF in_file.known
    THEN Img([x \in Voxels |-> in_file.vox[x] * operand_value])
    ELSE Opaque

\* the outputs node n may produce from the inputs i
L2Outputs(n, i) ==
    CASE n = "inputnode" ->
           {[group_mask |-> Opaque, in_copes |-> in_copes, in_varcopes |-> in_copes]}
      [] n = "l2_model" ->
           {[design_mat |-> Opaque, design_con |-> Opaque, design_grp |-> Opaque]}
      [] n \in {"merge_copes", "merge_varcopes"} -> {[merged_file |-> Opaque]}
      [] n = "flameo_ols" -> {[zstats |-> z, res4d |-> Opaque] : z \in Images}
      [] n = "smoothness" -> {[resels |-> Opaque, volume |-> Opaque, dlh |-> Opaque]}
      [] n = "fwe_ptoz" -> {[zstat |-> t] : t \in ZThresholds}
      [] n = "fwe_nonsig0" -> {[out_file |-> Threshold("above", i.in_file, i.thresh)]}
      [] n = "fwe_nonsig1" -> {[out_file |-> Threshold("below", i.in_file, i.thresh)]}
      [] n = "fwe_thresh" ->
           {[out_file |-> BinaryMaths("sub", i.in_file, i.operand_file)]}
      [] n \in {"cluster_pos", "cluster_neg"} ->
           {[threshold_file |-> Opaque, index_file |-> Opaque,
             localmax_txt_file |-> Opaque]}
      [] n \in {"zstat_inv", "cluster_inv"} ->
           {[out_file |-> BinaryMathsMul(i.in_file, -1)]}
      [] n = "cluster_all" ->
           {[out_file |-> BinaryMaths("add", i.in_file, i.operand_file)]}
      [] OTHER -> {<<>>}

\* what a staging node writes: one file per connection into its in_file
L2Staged(n, i) ==
    IF n \in DOMAIN L2Sinks
    THEN {[sub |-> "all", out_path_base |-> "grp_all",
           suffix |-> L2Sinks[n].suffix, desc |-> L2Sinks[n].desc,
           in_file |-> i[e.inp], from |-> <<e.src, e.out>>] :
             e \in {x \in L2Into(n) : x.inp = "in_file"}}
    ELSE {}

L2Ready(n) ==
    /\ l2_status[n] = "pending"
    /\ \A m \in L2Preds(n) : l2_status[m] = "done"

\* the collections of contrast maps the group analysis is given
L2Init ==
    /\ in_copes \in {[k \in 1..n |-> Opaque] : n \in 1..MaxCopes}
    /\ l2_status = [n \in L2Nodes |-> "pending"]
    /\ l2_in = [n \in L2Nodes |-> <<>>]
    /\ l2_out = [n \in L2Nodes |-> <<>>]
    /\ l2_sink = {}

\* the engine runs node n (its tool succeeds)
L2RunNode(n) ==
    /\ L2Ready(n)
    /\ \E o \in L2Outputs(n, L2Inputs(n)) :
          /\ l2_out' = [l2_out EXCEPT ![n] = o]
          /\ l2_sink' = l2_sink \cup L2Staged(n, L2Inputs(n))
    /\ l2_in' = [l2_in EXCEPT ![n] = L2Inputs(n)]
    /\ l2_status' = [l2_status EXCEPT ![n] = "done"]
    /\ UNCHANGED <<in_copes, info_vars, l1_vars>>

L2Run == \E n \in L2Nodes : L2RunNode(n)

(***************************************************************************)
(* Specifications: one per program part.                                   *)
(***************************************************************************)
\* the parts a specification does not run
InfoIdle == call = <<>> /\ result = NoResult /\ pc = "idle"

L1Idle == l1_status = <<>> /\ l1_out = <<>> /\ l1_sink = {}

L2Idle ==
    in_copes = <<>> /\ l2_status = <<>> /\ l2_in = <<>> /\ l2_out = <<>> /\ l2_sink = {}

InitInfo == InfoInit /\ L1Idle /\ L2Idle

NextInfo == Bids2NipypeInfo

SpecInfo == InitInfo /\ [][NextInfo]_vars

InitL1 == InfoIdle /\ L1Init /\ L2Idle

NextL1 == L1Run

SpecL1 == InitL1 /\ [][NextL1]_vars

\* the engine keeps running nodes while one has its dependencies met
FairSpecL1 == SpecL1 /\ WF_vars(L1Run)

InitL2 == InfoIdle /\ L1Idle /\ L2Init

NextL2 == L2Run

SpecL2 == InitL2 /\ [][NextL2]_vars

FairSpecL2 == SpecL2 /\ WF_vars(L2Run)

(***************************************************************************)
(* Properties of _bids2nipypeinfo.                                         *)
(***************************************************************************)
Returned == pc = "done" /\ result.status = "ok"

\* the motion columns the call uses
MotionInEffect ==
    IF call.motion_columns = <<>> THEN DefaultMotionColumns ELSE call.motion_columns

\* the regressor names the run-info carries (none when it has no such field)
InfoNames ==
    IF "regressor_names" \in DOMAIN result.info
    THEN result.info.regressor_names ELSE <<>>

\* the requested names include one that is no column of the confounds table
\* (and the motion columns the call reads are all there)
AbsentNameRequested ==
    /\ call.regressors_names.given
    /\ ~(Range(call.regressors_names.names) \subseteq call.confounds)
    /\ Range(MotionInEffect) \subseteq call.confounds

\* the rows of the events table whose trial type is t
RowsOfType(t) == {i \in DOMAIN call.events.rows : call.events.rows[i].trial_type = t}

TypesOfEvents == {call.events.rows[i].trial_type : i \in DOMAIN call.events.rows}

\* C1: when a requested regressor name is no column of the confounds table,
\* the call does not fail and the regressor names of the run-info are exactly
\* the requested names that are columns, at least one if any is present.
C1_FallbackKeepsPresentNames ==
    (pc = "done" /\ AbsentNameRequested) =>
        /\ result.status = "ok"
        /\ Range(InfoNames) = Range(call.regressors_names.names) \cap call.confounds
        /\ (Range(call.regressors_names.names) \cap call.confounds # {}
               => InfoNames # <<>>)

\* C2: the run-info has one condition per distinct trial type, and the onsets
\* and durations of a condition have one entry per events row of exactly that
\* trial type.
C2_OneEntryPerRowOfType ==
    Returned =>
        /\ Len(result.info.conditions) = Cardinality(TypesOfEvents)
        /\ Range(result.info.conditions) = TypesOfEvents
        /\ \A k \in DOMAIN result.info.conditions :
              /\ Len(result.info.onsets[k])
                   = Cardinality(RowsOfType(result.info.conditions[k]))
              /\ Len(result.info.durations[k])
                   = Cardinality(RowsOfType(result.info.conditions[k]))

\* C3: every onset and duration of the run-info is the input value rounded to
\* the number of decimal places given by the decimals parameter.
C3_RoundedToDecimals ==
    Returned =>
        \A k \in DOMAIN result.info.conditions :
            LET event == SelectIdx(call.events.rows,
                                   MatchingRows(call.events, result.info.conditions[k]))
            IN /\ result.info.onsets[k]
                    = [i \in DOMAIN event |-> NpRound(event[i].onset, call.decimals)]
               /\ result.info.durations[k]
                    = [i \in DOMAIN event |-> NpRound(event[i].duration, call.decimals)]

\* C4: without an amplitudes column, every amplitude list holds only the
\* amplitude parameter and is as long as the onsets list of its condition.
C4_DefaultAmplitudes ==
    (Returned /\ "amplitudes" \notin call.events.columns) =>
        /\ Len(result.info.amplitudes) = Len(result.info.conditions)
        /\ \A k \in DOMAIN result.info.conditions :
              /\ Len(result.info.amplitudes[k]) = Len(result.info.onsets[k])
              /\ \A j \in DOMAIN result.info.amplitudes[k] :
                    result.info.amplitudes[k][j] = call.amplitude

C4_Witness ==
    /\ Returned
    /\ "amplitudes" \notin call.events.columns
    /\ call.amplitude # Pow10(InputDigits)
    /\ \E k \in DOMAIN result.info.conditions : Len(result.info.amplitudes[k]) = MaxRows

C10_RegressorsParallel ==
    (Returned /\ "regressor_names" \in DOMAIN result.info) =>
        /\ Len(result.info.regressor_names) = Len(result.info.regressors)
        /\ \A i \in DOMAIN result.info.regressor_names :
              result.info.regressors[i]
                = FillNa(ConfoundsColumn(result.info.regressor_names[i]))

(***************************************************************************)
(* Properties of first_level_wf.                                           *)
(***************************************************************************)
\* the result image type t of subject s is staged by a node fed from feat_select
L1TypeStaged(s, t) ==
    \E f \in l1_sink : f.sub = s /\ f.in_file = <<"feat_select", t>> /\ f.suffix = t

L1Complete == \A s \in Subjects, n \in L1Nodes : l1_status[s][n] = "done"

\* the result image types a staging node is declared for
StagedTypes == {"cope", "varcope", "zstat", "tstat"}

\* C6 as stated, on the finished run: every one of the five selected types of
\* every subject has been staged.
C6_AllFiveStaged ==
    L1Complete => \A s \in Subjects, t \in FeatSelectTemplates : L1TypeStaged(s, t)

\* C6 amended: cope, varcope, zstat and tstat of every subject are eventually
\* staged by a node fed from feat_select; pe is selected but never staged.
C6_FourStaged ==
    /\ <>(\A s \in Subjects, t \in StagedTypes : L1TypeStaged(s, t))
    /\ [](\A f \in l1_sink : f.in_file[2] \in StagedTypes)

C6_Witness ==
    /\ L1Complete
    /\ \A s \in Subjects, t \in StagedTypes : L1TypeStaged(s, t)
    /\ \A s \in Subjects : "pe" \in l1_out[s]["feat_select"]

(***************************************************************************)
(* Properties of second_level_wf.                                          *)
(***************************************************************************)
\* the seven artifacts: the output a staging node takes and the name it gives
L2Artifacts ==
    {[from |-> <<"flameo_ols", "zstats">>, suffix |-> "zstat", desc |-> "none"],
     [from |-> <<"fwe_thresh", "out_file">>, suffix |-> "zstat", desc |-> "fwe"],
     [from |-> <<"cluster_all", "out_file">>, suffix |-> "zstat", desc |-> "clust"],
     [from |-> <<"cluster_pos", "index_file">>, suffix |-> "pclusterindex",
      desc |-> "none"],
     [from |-> <<"cluster_neg", "index_file">>, suffix |-> "nclusterindex",
      desc |-> "none"],
     [from |-> <<"cluster_pos", "localmax_txt_file">>, suffix |-> "plocalmax",
      desc |-> "intask"],
     [from |-> <<"cluster_neg", "localmax_txt_file">>, suffix |-> "nlocalmax",
      desc |-> "intask"]}

L2ArtifactStaged(a) ==
    \E f \in l2_sink : f.from = a.from /\ f.suffix = a.suffix /\ f.desc = a.desc

L2Complete == \A n \in L2Nodes : l2_status[n] = "done"

\* C7: all seven artifacts are eventually staged, and a staging node has run
\* only if the node producing its input has finished.
C7_AllSevenStaged ==
    /\ <>(\A a \in L2Artifacts : L2ArtifactStaged(a))
    /\ [](\A f \in l2_sink : l2_status[f.from[1]] = "done")
    /\ [](\A n \in DOMAIN L2Sinks :
             l2_status[n] = "done" => \A m \in L2Preds(n) : l2_status[m] = "done")

C7_Witness ==
    /\ L2Complete
    /\ Cardinality(l2_sink) = 7
    /\ \A a \in L2Artifacts : L2ArtifactStaged(a)

\* C8: the group design gets the number n of contrast maps and the smoothness
\* estimate n - 1, so the degrees of freedom are the copes count minus one.
C8_CountAndDof ==
    /\ l2_status["l2_model"] = "done" =>
          l2_in["l2_model"].num_copes = Len(in_copes)
    /\ l2_status["smoothness"] = "done" =>
          /\ l2_in["smoothness"].dof = Len(in_copes) - 1
          /\ l2_in["smoothness"].dof = l2_in["l2_model"].num_copes - 1

C8_Witness ==
    /\ l2_status["smoothness"] = "done"
    /\ Len(in_copes) = MaxCopes
    /\ l2_in["l2_model"].num_copes = MaxCopes
    /\ l2_in["smoothness"].dof = MaxCopes - 1

\* C9: with threshold t from fwe_ptoz, the staged FWE map is, at every voxel,
\* the group z value v when v > t or v < -t, and 0 when -t <= v <= t.
C9_FweBand ==
    \A f \in l2_sink :
        f.desc = "fwe" =>
            LET t == l2_out["fwe_ptoz"].zstat
                z == l2_out["flameo_ols"].zstats.vox
            IN /\ f.in_file.known
               /\ \A x \in Voxels :
                     /\ (z[x] > t \/ z[x] < -t) => f.in_file.vox[x] = z[x]
                     /\ (-t <= z[x] /\ z[x] <= t) => f.in_file.vox[x] = 0

C9_Witness ==
    \E f \in l2_sink :
        /\ f.desc = "fwe"
        /\ l2_out["fwe_ptoz"].zstat = 1
        /\ \A x \in Voxels : l2_out["flameo_ols"].zstats.vox[x] = -2
        /\ \A x \in Voxels : f.in_file.vox[x] = -2

====
